---- MODULE Spec2Model ----
(***************************************************************************)
(* A model of src/minesweeper.py: the Minesweeper board (the oracle), the  *)
(* Sentence class and the MinesweeperAI knowledge base with add_knowledge  *)
(* stepped through its five numbered parts.                                *)
(*                                                                         *)
(* A cell is a pair <<i, j>> with 0 <= i < height and 0 <= j < width, as   *)
(* in the Python source.  A Sentence is a record [cells, count].  The      *)
(* knowledge list is a sequence of Sentences (Python list, 1-based here).  *)
(***************************************************************************)
EXTENDS Integers, Sequences, FiniteSets, TLC

(* Bounds of the model: the number of cells of the largest board, the      *)
(* largest number of mines on a board and the number of add_knowledge      *)
(* calls made by an arbitrary caller.                                      *)
MaxCells == 6
MaxMines == 2
MaxObs == 4

(* The longest knowledge list the subset pass is followed to.              *)
MaxLen == 16

VARIABLES
    height,      \* MinesweeperAI.height (= Minesweeper.height)
    width,       \* MinesweeperAI.width  (= Minesweeper.width)
    board,       \* Minesweeper.mines: the cells that hold a mine
    moves_made,  \* MinesweeperAI.moves_made
    mines,       \* MinesweeperAI.mines
    safes,       \* MinesweeperAI.safes
    knowledge,   \* MinesweeperAI.knowledge
    pc,          \* position inside add_knowledge ("idle" outside of it)
    obs,         \* the arguments of the running / last add_knowledge call
    idx,         \* position of the step-4 loop in knowledge
    pending,     \* cells of mines.copy() / safes.copy() not yet marked
    kind,        \* which of the two inner loops of step 4 is running
    sub,         \* position of the outer loop of step 5 (subSetSentence)
    sup,         \* position of the inner loop of step 5 (superSetSentence)
    base,        \* len(self.knowledge) when the loop of line 260 starts
    nobs,        \* number of add_knowledge calls made so far
    pre,         \* the knowledge base as it was when the running / last
                 \* add_knowledge call was made, if that call is for a cell
                 \* already in moves_made (None otherwise)
    ret,         \* the value make_safe_move / make_random_move returned,
                 \* while the caller holds it (pc = "moved")
    last,        \* which of the two returned it ("none" when neither)
    game         \* state of a game played with the move policy

vars == <<height, width, board, moves_made, mines, safes, knowledge, pc, obs,
          idx, pending, kind, sub, sup, base, nobs, pre, ret, last, game>>

None == <<>>

Grid(h, w) == (0 .. h - 1) \X (0 .. w - 1)

(* range(c - 1, c + 2) x range(c - 1, c + 2), in the order the two nested   *)
(* for loops visit it.                                                     *)
Offsets ==
    << <<-1, -1>>, <<-1, 0>>, <<-1, 1>>,
       << 0, -1>>, << 0, 0>>, << 0, 1>>,
       << 1, -1>>, << 1, 0>>, << 1, 1>> >>

(* Variant: only the lower bounds are tested.                              *)
InBounds_NoUpper(c, h, w) == 0 <= c[1] /\ 0 <= c[2]

InBounds(c, h, w) == 0 <= c[1] /\ c[1] < h /\ 0 <= c[2] /\ c[2] < w

(***************************************************************************)
(* Minesweeper (the board)                                                 *)
(***************************************************************************)
is_mine(cell) == cell \in board

RECURSIVE NearbyScan(_, _, _)
NearbyScan(cell, k, count) ==
    IF k > Len(Offsets) THEN count
    ELSE LET c == <<cell[1] + Offsets[k][1], cell[2] + Offsets[k][2]>> IN
         IF c = cell THEN NearbyScan(cell, k + 1, count)
         ELSE IF InBounds(c, height, width) /\ c \in board
              THEN NearbyScan(cell, k + 1, count + 1)
              ELSE NearbyScan(cell, k + 1, count)

nearby_mines(cell) == NearbyScan(cell, 1, 0)

(***************************************************************************)
(* Sentence                                                                *)
(***************************************************************************)
Sentence(cells, count) == [cells |-> cells, count |-> count]

(* Variant: the length of the sentence is not compared with the count.    *)
known_mines_NoLenCheck(s) ==
    IF s.count # 0 THEN s.cells ELSE {}

known_mines(s) ==
    IF Cardinality(s.cells) = s.count /\ s.count # 0 THEN s.cells ELSE {}

(* Variant: the test of known_mines is used for the safes.                *)
known_safes_Swapped(s) ==
    IF Cardinality(s.cells) = s.count THEN s.cells ELSE {}

known_safes(s) ==
    IF s.count = 0 THEN s.cells ELSE {}

(* Variant: the cell is removed and the count is kept.                    *)
Sentence_mark_mine_KeepCount(s, cell) ==
    IF cell \in s.cells
    THEN [cells |-> s.cells \ {cell}, count |-> s.count]
    ELSE s

(* Variant: the membership test of line 129 is left out.                  *)
Sentence_mark_mine_NoTest(s, cell) ==
    [cells |-> s.cells \ {cell}, count |-> s.count - 1]

Sentence_mark_mine(s, cell) ==
    IF cell \in s.cells
    THEN [cells |-> s.cells \ {cell}, count |-> s.count - 1]
    ELSE s

(* Variant: the count is decremented as mark_mine does.                   *)
Sentence_mark_safe_Decrement(s, cell) ==
    IF cell \in s.cells
    THEN [cells |-> s.cells \ {cell}, count |-> s.count - 1]
    ELSE s

Sentence_mark_safe(s, cell) ==
    IF cell \in s.cells
    THEN [cells |-> s.cells \ {cell}, count |-> s.count]
    ELSE s

(***************************************************************************)
(* MinesweeperAI                                                           *)
(***************************************************************************)
(* mark_mine / mark_safe: the new value of the knowledge list; the caller  *)
(* adds the cell to mines / safes.                                         *)
mark_mine(K, cell) == [n \in 1 .. Len(K) |-> Sentence_mark_mine(K[n], cell)]

(* Variant: the cell is added to safes and the sentences are left alone.  *)
mark_safe_NoPropagation(K, cell) == K

mark_safe(K, cell) == [n \in 1 .. Len(K) |-> Sentence_mark_safe(K[n], cell)]

(* Lines 210-228: the neighbour loop.  acc is [cells, count], the running  *)
(* values of the locals neighbors and count.                               *)
RECURSIVE NeighborScan(_, _, _, _, _)
NeighborScan(cell, k, acc, ms, sf) ==
    IF k > Len(Offsets) THEN acc
    ELSE LET c == <<cell[1] + Offsets[k][1], cell[2] + Offsets[k][2]>> IN
         IF c = cell THEN NeighborScan(cell, k + 1, acc, ms, sf)
         ELSE IF InBounds(c, height, width)
              THEN IF c \in ms
                   THEN NeighborScan(cell, k + 1,
                            [acc EXCEPT !.count = @ - 1], ms, sf)
                   ELSE IF c \notin sf
                        THEN NeighborScan(cell, k + 1,
                                 [acc EXCEPT !.cells = @ \cup {c}], ms, sf)
                        ELSE NeighborScan(cell, k + 1, acc, ms, sf)
              ELSE NeighborScan(cell, k + 1, acc, ms, sf)

newSentence(cell, count, ms, sf) ==
    NeighborScan(cell, 1, Sentence({}, count), ms, sf)

(* Variant: the set is assigned instead of added to.                      *)
set_add_Assign(S, cell) == {cell}

(* set.add(cell) of lines 176, 185 and 205.                                *)
set_add(S, cell) == S \cup {cell}

(* The fields of the MinesweeperAI object that make up its knowledge base. *)
KB ==
    [moves_made |-> moves_made, mines |-> mines, safes |-> safes,
     knowledge |-> knowledge]

(* Does the list hold a sentence equal (Sentence.__eq__) to s?             *)
InKnowledge(K, s) == \E n \in 1 .. Len(K) : K[n] = s

(* Lines 205-233 of add_knowledge: steps 1, 2 and 3.                       *)
AddKnowledgeBegin(cell, count) ==
    /\ moves_made' = set_add(moves_made, cell)
    /\ safes' = set_add(safes, cell)
    /\ knowledge' = Append(mark_safe(knowledge, cell),
                           newSentence(cell, count, mines,
                                       set_add(safes, cell)))
    /\ obs' = [cell |-> cell, count |-> count]
    /\ nobs' = nobs + 1
    /\ pre' = IF cell \in moves_made THEN KB ELSE None
    /\ ret' = None
    /\ last' = "none"
    /\ pc' = "loop4"
    /\ idx' = 1
    /\ UNCHANGED <<height, width, board, mines, pending, kind, sub, sup,
                   base, game>>

(* A caller reveals any in-bounds cell that is not a mine and reports the  *)
(* board's count for it.                                                   *)
Observe ==
    /\ pc = "idle"
    /\ nobs < MaxObs
    /\ \E cell \in Grid(height, width) :
          /\ ~is_mine(cell)
          /\ AddKnowledgeBegin(cell, nearby_mines(cell))

(* Lines 237-242 and 246: the head of the step-4 loop for one sentence.    *)
Step4Head ==
    /\ pc = "loop4"
    /\ IF idx > Len(knowledge)
       THEN /\ pc' = "prune"
            /\ idx' = 0
            /\ UNCHANGED <<pending, kind>>
       ELSE LET m == known_mines(knowledge[idx])
                s == known_safes(knowledge[idx])
            IN  IF m # {}
                THEN pending' = m /\ kind' = "mine" /\ pc' = "marking"
                                  /\ UNCHANGED idx
                ELSE IF s # {}
                     THEN pending' = s /\ kind' = "safe" /\ pc' = "marking"
                                       /\ UNCHANGED idx
                     ELSE idx' = idx + 1 /\ UNCHANGED <<pending, kind, pc>>
    /\ UNCHANGED <<height, width, board, moves_made, mines, safes, knowledge,
                   obs, sub, sup, base, nobs, pre, ret, last, game>>

(* Lines 244-245 and 247-248: one self.mark_mine(cell) or                  *)
(* self.mark_safe(cell) call; the copy is iterated in any order.           *)
Step4Mark ==
    /\ pc = "marking"
    /\ IF pending = {}
       THEN /\ pc' = "loop4"
            /\ idx' = idx + 1
            /\ kind' = "none"
            /\ UNCHANGED <<pending, mines, safes, knowledge>>
       ELSE \E cell \in pending :
            /\ pending' = pending \ {cell}
            /\ IF kind = "mine"
               THEN /\ mines' = set_add(mines, cell)
                    /\ knowledge' = mark_mine(knowledge, cell)
                    /\ UNCHANGED safes
               ELSE /\ safes' = set_add(safes, cell)
                    /\ knowledge' = mark_safe(knowledge, cell)
                    /\ UNCHANGED mines
            /\ UNCHANGED <<pc, idx, kind>>
    /\ UNCHANGED <<height, width, board, moves_made, obs, sub, sup, base,
                   nobs, pre, ret, last, game>>

(* Variant: nothing compares equal to the fresh Sentence(set(), 0).        *)
PruneEmpty_KeepAll(K) == K

(* Line 256: drop the sentences equal to Sentence(set(), 0).               *)
PruneEmpty(K) == SelectSeq(K, LAMBDA s : s # Sentence({}, 0))

Prune ==
    /\ pc = "prune"
    /\ knowledge' = PruneEmpty(knowledge)
    /\ pc' = "subset"
    /\ sub' = 1
    /\ sup' = 1
    /\ base' = Len(PruneEmpty(knowledge))
    /\ UNCHANGED <<height, width, board, moves_made, mines, safes, obs, idx,
                   pending, kind, nobs, pre, ret, last, game>>

(* Variant: the counts are subtracted the wrong way round.                *)
InferFrom_SwappedCount(K, A, B) ==
    IF A.cells \subseteq B.cells /\ A.cells # B.cells
    THEN LET infferedSentence ==
                 Sentence(B.cells \ A.cells, A.count - B.count)
         IN  IF ~InKnowledge(K, infferedSentence)
             THEN Append(K, infferedSentence)
             ELSE K
    ELSE K

(* Variant: the derived sentence is appended without the test of line 268. *)
InferFrom_NoTest(K, A, B) ==
    IF A.cells \subseteq B.cells /\ A.cells # B.cells
    THEN Append(K, Sentence(B.cells \ A.cells, B.count - A.count))
    ELSE K

(* Lines 263-269: the body of the inner loop for the pair (A, B).          *)
InferFrom(K, A, B) ==
    IF A.cells \subseteq B.cells /\ A.cells # B.cells
    THEN LET infferedSentence ==
                 Sentence(B.cells \ A.cells, B.count - A.count)
         IN  IF ~InKnowledge(K, infferedSentence)
             THEN Append(K, infferedSentence)
             ELSE K
    ELSE K

(* Lines 260-261: both for loops run over the list that line 269 appends   *)
(* to, so each re-reads its length before every iteration.  For the outer  *)
(* loop: the length n0 the list had when it started plays no part.         *)
(* Variant: the outer loop runs over a copy of the list made at its start. *)
SubsetLoopDone_Snapshot(K, n, n0) == n > n0

SubsetLoopDone(K, n, n0) == n > Len(K)

SubsetStep ==
    /\ pc = "subset"
    /\ IF SubsetLoopDone(knowledge, sub, base)
       THEN /\ pc' = "idle"
            /\ sub' = 0
            /\ sup' = 0
            /\ UNCHANGED knowledge
       ELSE IF sup > Len(knowledge)
            THEN /\ sub' = sub + 1
                 /\ sup' = 1
                 /\ UNCHANGED <<pc, knowledge>>
            ELSE /\ knowledge' = InferFrom(knowledge, knowledge[sub],
                                           knowledge[sup])
                 /\ Len(knowledge') <= MaxLen
                 /\ sup' = sup + 1
                 /\ UNCHANGED <<pc, sub>>
    /\ UNCHANGED <<height, width, board, moves_made, mines, safes, obs, idx,
                   pending, kind, base, nobs, pre, ret, last, game>>

(* Variant: the test of line 283 is left out.                             *)
SafeMoveAccepts_Any(cell) == TRUE

(* Line 283.                                                               *)
SafeMoveAccepts(cell) == cell \notin moves_made

(* Lines 282-286: the for loop over the cells of self.safes not yet        *)
(* visited; a set is iterated in an unspecified order, so the result is    *)
(* the set of the values the loop can return.                              *)
RECURSIVE SafeMoveScan(_)
SafeMoveScan(rest) ==
    IF rest = {} THEN {None}
    ELSE UNION {IF SafeMoveAccepts(cell)
                THEN {cell}
                ELSE SafeMoveScan(rest \ {cell}) : cell \in rest}

(* make_safe_move: the values the call can return.                         *)
make_safe_move ==
    IF Cardinality(safes) > 0 THEN SafeMoveScan(safes) ELSE {None}

(* Variant: "or" in place of "and".                                        *)
Eligible_Or(cell) == cell \notin moves_made \/ cell \notin mines

(* Line 299.                                                               *)
Eligible(cell) == cell \notin moves_made /\ cell \notin mines

(* Lines 296-301: the two range loops that fill eventualMoves.             *)
RECURSIVE RandomScan(_, _, _)
RandomScan(i, j, eventualMoves) ==
    IF i >= height THEN eventualMoves
    ELSE IF j >= width THEN RandomScan(i + 1, 0, eventualMoves)
    ELSE IF Eligible(<<i, j>>)
         THEN RandomScan(i, j + 1, eventualMoves \cup {<<i, j>>})
         ELSE RandomScan(i, j + 1, eventualMoves)

(* make_random_move: the values the call can return (set.pop() removes an  *)
(* arbitrary element of the local set).                                    *)
make_random_move ==
    LET eventualMoves == RandomScan(0, 0, {})
    IN  IF Cardinality(eventualMoves) = 0 THEN {None} ELSE eventualMoves

(* Variant: the move returned is recorded as made.                        *)
AfterMove_Recorded(kb, cell) ==
    IF cell = None THEN kb
    ELSE [kb EXCEPT !.moves_made = @ \cup {cell}]

(* The knowledge base after make_safe_move or make_random_move returned    *)
(* cell: neither assigns to a field of self nor calls a method that does   *)
(* (pop() at line 306 acts on the local set).                              *)
AfterMove(kb, cell) == kb

MoveReturns(f, cell) ==
    /\ ret' = cell
    /\ last' = f
    /\ pc' = "moved"
    /\ moves_made' = AfterMove(KB, cell).moves_made
    /\ mines' = AfterMove(KB, cell).mines
    /\ safes' = AfterMove(KB, cell).safes
    /\ knowledge' = AfterMove(KB, cell).knowledge
    /\ UNCHANGED <<height, width, board, obs, idx, pending, kind, sub, sup,
                   base, nobs, pre, game>>

MakeSafeMove ==
    /\ pc = "idle"
    /\ \E cell \in make_safe_move : MoveReturns("safe", cell)

MakeRandomMove ==
    /\ pc = "idle"
    /\ \E cell \in make_random_move : MoveReturns("random", cell)

(* The caller is done with the value returned.                             *)
MoveConsumed ==
    /\ pc = "moved"
    /\ pc' = "idle"
    /\ ret' = None
    /\ last' = "none"
    /\ UNCHANGED <<height, width, board, moves_made, mines, safes, knowledge,
                   obs, idx, pending, kind, sub, sup, base, nobs, pre, game>>

(***************************************************************************)
(* A game driven by the move policy: make_safe_move() if it is not None,   *)
(* otherwise make_random_move().  The guard on nobs keeps the number of    *)
(* reveals finite when the policy is broken; it allows one reveal more     *)
(* than any board has cells.                                               *)
(***************************************************************************)
PolicyMove ==
    UNION {IF move # None THEN {move} ELSE make_random_move :
               move \in make_safe_move}

(* The chosen cell is not a mine: the board's count goes to add_knowledge. *)
GameReveal ==
    /\ pc = "idle"
    /\ game = "playing"
    /\ nobs <= MaxCells
    /\ \E cell \in PolicyMove \ {None} :
          /\ ~is_mine(cell)
          /\ AddKnowledgeBegin(cell, nearby_mines(cell))

(* The chosen cell is a mine: the game stops.                              *)
GameLose ==
    /\ pc = "idle"
    /\ game = "playing"
    /\ \E cell \in PolicyMove \ {None} :
          /\ is_mine(cell)
          /\ ret' = cell
    /\ game' = "lost"
    /\ UNCHANGED <<height, width, board, moves_made, mines, safes, knowledge,
                   pc, obs, idx, pending, kind, sub, sup, base, nobs, pre,
                   last>>

(* make_random_move returned None: the game stops.                         *)
GameEnd ==
    /\ pc = "idle"
    /\ game = "playing"
    /\ None \in PolicyMove
    /\ game' = "ended"
    /\ UNCHANGED <<height, width, board, moves_made, mines, safes, knowledge,
                   pc, obs, idx, pending, kind, sub, sup, base, nobs, pre,
                   ret, last>>

(***************************************************************************)
(* Specifications                                                          *)
(***************************************************************************)
InitAI ==
    /\ moves_made = {}
    /\ mines = {}
    /\ safes = {}
    /\ knowledge = <<>>
    /\ pc = "idle"
    /\ obs = None
    /\ idx = 0
    /\ pending = {}
    /\ kind = "none"
    /\ sub = 0
    /\ sup = 0
    /\ base = 0
    /\ nobs = 0
    /\ pre = None
    /\ ret = None
    /\ last = "none"
    /\ game = "playing"

Init ==
    /\ height \in 1 .. MaxCells
    /\ width \in 1 .. MaxCells
    /\ height * width <= MaxCells
    /\ board \in {b \in SUBSET Grid(height, width) : Cardinality(b) <= MaxMines}
    /\ InitAI

Next == Observe \/ Step4Head \/ Step4Mark \/ Prune \/ SubsetStep

Spec == Init /\ [][Next]_vars

(* The same caller, who may also ask for a move between two observations.  *)
NextMoves ==
    \/ Observe
    \/ Step4Head
    \/ Step4Mark
    \/ Prune
    \/ SubsetStep
    \/ MakeSafeMove
    \/ MakeRandomMove
    \/ MoveConsumed

SpecMoves == Init /\ [][NextMoves]_vars

(* add_knowledge is synchronous: once called it runs until it returns.     *)
SpecFair == Spec /\ WF_vars(Step4Head \/ Step4Mark \/ Prune \/ SubsetStep)

(* The policy-driven game.                                                 *)
NextGame ==
    \/ GameReveal
    \/ GameLose
    \/ GameEnd
    \/ Step4Head
    \/ Step4Mark
    \/ Prune
    \/ SubsetStep

SpecGame == Init /\ [][NextGame]_vars

(* The driver keeps playing and every call runs to its end.                *)
SpecGameFair == SpecGame /\ WF_vars(NextGame)

(***************************************************************************)
(* The scenario of the 3x3 board whose only mine is (0,0): (2,2) is        *)
(* revealed, then (1,1), then whatever make_safe_move returns, until it    *)
(* returns None.                                                           *)
(***************************************************************************)
InitScenario ==
    /\ height = 3
    /\ width = 3
    /\ board = {<<0, 0>>}
    /\ InitAI

RevealFirst ==
    /\ pc = "idle"
    /\ moves_made = {}
    /\ AddKnowledgeBegin(<<2, 2>>, nearby_mines(<<2, 2>>))

RevealSecond ==
    /\ pc = "idle"
    /\ moves_made = {<<2, 2>>}
    /\ AddKnowledgeBegin(<<1, 1>>, nearby_mines(<<1, 1>>))

RevealSafe ==
    /\ pc = "idle"
    /\ {<<2, 2>>, <<1, 1>>} \subseteq moves_made
    /\ \E cell \in make_safe_move :
          /\ cell # None
          /\ AddKnowledgeBegin(cell, nearby_mines(cell))

NextScenario ==
    \/ RevealFirst
    \/ RevealSecond
    \/ RevealSafe
    \/ Step4Head
    \/ Step4Mark
    \/ Prune
    \/ SubsetStep

SpecScenario == InitScenario /\ [][NextScenario]_vars

(* The game loop is the only thread of control: it keeps calling           *)
(* make_safe_move and add_knowledge, and add_knowledge keeps running,      *)
(* until make_safe_move returns None.                                      *)
SpecScenarioFair == SpecScenario /\ WF_vars(NextScenario)

(***************************************************************************)
(* Properties                                                              *)
(***************************************************************************)
(* The in-bounds cells at distance one of cell (king's move), cell itself  *)
(* excluded.                                                               *)
AdjacentCells(cell) ==
    {n \in Grid(height, width) :
        /\ n # cell
        /\ n[1] - cell[1] \in {-1, 0, 1}
        /\ n[2] - cell[2] \in {-1, 0, 1}}

Held == {knowledge[n] : n \in 1 .. Len(knowledge)}

(* C1: ground-truth consistency.  After any sequence of truthful           *)
(* observations of non-mine cells, every cell in mines is a mine of the    *)
(* board and no cell in safes is one, so make_safe_move returns no mine.   *)
GroundTruthConsistency ==
    /\ mines \subseteq board
    /\ safes \cap board = {}
    /\ \A c \in make_safe_move : c # None => ~is_mine(c)

GroundTruthWitness ==
    /\ pc = "idle"
    /\ mines # {}
    /\ safes \ moves_made # {}

(* C2: every held sentence has 0 <= count <= |cells| in every state,       *)
(* the states between two mark_mine / mark_safe calls of step 4 included.  *)
CountWithinCells ==
    \A s \in Held : 0 <= s.count /\ s.count <= Cardinality(s.cells)

CountWithinCellsWitness ==
    /\ pc = "marking"
    /\ kind = "mine"
    /\ pending # {}
    /\ mines \cap AdjacentCells(obs.cell) # {}
    /\ \E s \in Held : s.cells # {} /\ s.count < Cardinality(s.cells)

(* C3: when the step-4 loop has finished (before the prune), no held       *)
(* sentence has a non-empty known_mines() or known_safes().                *)
PropagationReachesFixpoint ==
    pc = "prune" =>
        \A s \in Held : known_mines(s) = {} /\ known_safes(s) = {}

(* C4: when add_knowledge has returned, no two sentences of the list are   *)
(* equal (same cells, same count).                                         *)
NoDuplicateSentences ==
    pc = "idle" =>
        \A m, n \in 1 .. Len(knowledge) :
            m # n => knowledge[m] # knowledge[n]

(* C5: when add_knowledge has returned, for every pair of held sentences   *)
(* (A, B) with A.cells a strict subset of B.cells the sentence             *)
(* (B.cells - A.cells, B.count - A.count) is held.                         *)
StrictSubset(A, B) == A.cells \subseteq B.cells /\ A.cells # B.cells

SubsetClosed ==
    pc = "idle" =>
        \A A, B \in Held :
            StrictSubset(A, B) =>
                Sentence(B.cells \ A.cells, B.count - A.count) \in Held

SubsetClosedWitness ==
    /\ pc = "idle"
    /\ \E m, n \in 1 .. Len(knowledge) :
          /\ StrictSubset(knowledge[m], knowledge[n])
          /\ (m > base \/ n > base)

(* C6: no held sentence contains a cell of mines or safes, in any state:   *)
(* right after each mark_mine / mark_safe call, after the new sentence is  *)
(* appended and after the subset inference.                                *)
PropagationComplete ==
    \A s \in Held : s.cells \cap (mines \cup safes) = {}

PropagationCompleteWitness ==
    /\ pc = "idle"
    /\ nobs >= 2
    /\ mines # {}
    /\ safes \ moves_made # {}
    /\ knowledge # <<>>

(* C7: mines and safes are disjoint in every state.                        *)
MinesSafesDisjoint == mines \cap safes = {}

MinesSafesDisjointWitness ==
    /\ pc = "marking"
    /\ mines # {}
    /\ safes \ moves_made # {}

(* C8: in the 3x3 scenario (0,0) ends up in mines: it is there whenever    *)
(* make_safe_move returns None after (2,2) and (1,1) were revealed, and    *)
(* that point is reached.                                                  *)
ScenarioOver ==
    /\ pc = "idle"
    /\ {<<2, 2>>, <<1, 1>>} \subseteq moves_made
    /\ make_safe_move = {None}

ScenarioFindsMine ==
    /\ [](ScenarioOver => <<0, 0>> \in mines)
    /\ <>(<<0, 0>> \in mines)

ScenarioFindsMineWitness ==
    /\ ScenarioOver
    /\ <<0, 0>> \in mines
    /\ moves_made = Grid(3, 3) \ {<<0, 0>>}

(* C9: when add_knowledge(cell, 0) has returned, every in-bounds neighbour *)
(* of cell is in safes.                                                    *)
ZeroCountResolvesNeighbours ==
    (pc = "idle" /\ obs # None /\ obs.count = 0) =>
        AdjacentCells(obs.cell) \subseteq safes

ZeroCountWitness ==
    /\ pc = "idle"
    /\ obs # None
    /\ obs.count = 0
    /\ AdjacentCells(obs.cell) \ moves_made # {}
    /\ knowledge # <<>>
    /\ board # {}

(* C10: the sentence add_knowledge appends for an observation has as cells *)
(* the in-bounds neighbours of the cell that are in neither mines nor      *)
(* safes, and as count the observed count minus the number of neighbours   *)
(* in mines.  (pc = "loop4" with idx = 1 is the state right after line     *)
(* 233.)                                                                   *)
NewSentenceIsUnresolvedNeighbours ==
    (pc = "loop4" /\ idx = 1) =>
        knowledge[Len(knowledge)] =
            Sentence(AdjacentCells(obs.cell) \ (mines \cup safes),
                     obs.count - Cardinality(AdjacentCells(obs.cell) \cap mines))

NewSentenceWitness ==
    /\ pc = "loop4"
    /\ idx = 1
    /\ AdjacentCells(obs.cell) \cap mines # {}
    /\ AdjacentCells(obs.cell) \cap safes # {}
    /\ knowledge[Len(knowledge)].cells # {}
    /\ Cardinality(AdjacentCells(obs.cell)) < 8

(* C11: when add_knowledge has returned, no held sentence has an empty     *)
(* cell set.                                                               *)
NoEmptySentence ==
    pc = "idle" => \A s \in Held : s.cells # {}

(* A return after conclusions were drawn (sentences were emptied and       *)
(* pruned) with a list to which the subset pass has appended.              *)
NoEmptySentenceWitness ==
    /\ pc = "idle"
    /\ safes \ moves_made # {}
    /\ Len(knowledge) > base
    /\ base > 0

(* C12: make_safe_move returns a cell of safes that is not in moves_made   *)
(* whenever there is one, and None exactly when safes is a subset of       *)
(* moves_made.                                                             *)
SafeMoveIsUnplayedSafe ==
    (pc = "moved" /\ last = "safe") =>
        /\ ret # None => (ret \in safes /\ ret \notin moves_made)
        /\ ret = None <=> safes \subseteq moves_made

SafeMoveWitness ==
    /\ pc = "moved"
    /\ last = "safe"
    /\ ret # None
    /\ safes \cap moves_made # {}
    /\ Cardinality(safes \ moves_made) >= 2

(* C13: make_random_move returns no cell of moves_made or mines, returns   *)
(* an in-bounds cell when some in-bounds cell is in neither set, and None  *)
(* exactly when every cell of the grid is in moves_made or mines.          *)
RandomMoveIsUnplayedNonMine ==
    (pc = "moved" /\ last = "random") =>
        /\ ret # None =>
              /\ ret \in Grid(height, width)
              /\ ret \notin moves_made \cup mines
        /\ ret = None <=> Grid(height, width) \subseteq moves_made \cup mines

RandomMoveWitness ==
    /\ pc = "moved"
    /\ last = "random"
    /\ ret # None
    /\ moves_made # {}
    /\ mines # {}

(* C14: make_safe_move and make_random_move leave moves_made, mines, safes *)
(* and the knowledge list as they were, whatever they return.              *)
MovesLeaveKnowledgeBase ==
    [][pc' = "moved" =>
          UNCHANGED <<moves_made, mines, safes, knowledge>>]_vars

MovesLeaveWitness ==
    /\ pc = "moved"
    /\ ret # None
    /\ knowledge # <<>>
    /\ moves_made # {}

(* C15: a second add_knowledge call for a cell already in moves_made       *)
(* leaves moves_made, mines, safes and the knowledge list, at its return,  *)
(* as they were when it was made.                                          *)
ReobservationIsNoOp ==
    (pc = "idle" /\ pre # None) => KB = pre

(* C16: moves_made, mines and safes only grow: no step of add_knowledge    *)
(* (each mark_mine / mark_safe call included) removes a cell from them.    *)
SetsOnlyGrow ==
    [][/\ moves_made \subseteq moves_made'
       /\ mines \subseteq mines'
       /\ safes \subseteq safes']_vars

SetsOnlyGrowWitness ==
    /\ pc = "idle"
    /\ nobs >= 2
    /\ Cardinality(mines) >= 2
    /\ Cardinality(safes \ moves_made) >= 2

(* C17: mark_mine(cell) and mark_safe(cell) are idempotent: wherever the   *)
(* program is about to call one of them (for a cell of the copy iterated   *)
(* in step 4, or for the cell a caller may observe next), calling it a     *)
(* second time with the same cell changes neither the set nor any          *)
(* sentence.                                                               *)
MarkArguments ==
    IF pc = "marking" THEN pending
    ELSE IF pc = "idle" THEN Grid(height, width) \ board
    ELSE {}

MarkIsIdempotent ==
    \A cell \in MarkArguments :
        /\ mark_mine(mark_mine(knowledge, cell), cell) =
               mark_mine(knowledge, cell)
        /\ set_add(set_add(mines, cell), cell) = set_add(mines, cell)
        /\ mark_safe(mark_safe(knowledge, cell), cell) =
               mark_safe(knowledge, cell)
        /\ set_add(set_add(safes, cell), cell) = set_add(safes, cell)

(* mark_mine is about to be called for a cell that a second sentence with  *)
(* a positive count contains too.                                          *)
MarkIsIdempotentWitness ==
    /\ pc = "marking"
    /\ kind = "mine"
    /\ \E n \in 1 .. Len(knowledge) :
          /\ n # idx
          /\ knowledge[n].cells \cap pending # {}
          /\ knowledge[n].count >= 1

(* C18: the sentence the subset step derives from a pair (A, B) is         *)
(* satisfied by every mine assignment that satisfies A and B, and every    *)
(* held sentence (observed, shrunk or derived) has as count the number of  *)
(* mines of the board among its cells.                                     *)
Satisfies(M, s) == Cardinality(s.cells \cap M) = s.count

PairInHand ==
    /\ pc = "subset"
    /\ sub <= Len(knowledge)
    /\ sup <= Len(knowledge)
    /\ StrictSubset(knowledge[sub], knowledge[sup])

SubsetRuleSound ==
    /\ \A s \in Held : Satisfies(board, s)
    /\ PairInHand =>
          LET A == knowledge[sub]
              B == knowledge[sup]
              derived == InferFrom(<<>>, A, B)[1]
          IN  \A M \in SUBSET B.cells :
                  (Satisfies(M, A) /\ Satisfies(M, B)) => Satisfies(M, derived)

SubsetRuleSoundWitness ==
    /\ PairInHand
    /\ knowledge[sub].count >= 1
    /\ knowledge[sup].count > knowledge[sub].count
    /\ ~InKnowledge(knowledge, InferFrom(<<>>, knowledge[sub], knowledge[sup])[1])

(* C19: every add_knowledge call terminates: from any point inside a call  *)
(* the model returns to idle, and the subset pass, which appends to the    *)
(* list both of its loops walk, stops appending before the list reaches    *)
(* the length cap of the model.                                            *)
AddKnowledgeTerminates ==
    /\ [](Len(knowledge) < MaxLen)
    /\ (pc # "idle") ~> (pc = "idle")

AddKnowledgeTerminatesWitness ==
    /\ pc = "idle"
    /\ base > 0
    /\ Len(knowledge) >= base + 2

(* C20: in a game driven by the move policy no cell is revealed twice (the *)
(* number of observed reveals equals the number of played cells, and a     *)
(* mine that ends the game was not played before), the reveals never       *)
(* exceed height*width, and the game ends.                                 *)
Reveals == nobs + (IF game = "lost" THEN 1 ELSE 0)

PolicyGameEnds ==
    /\ [](nobs = Cardinality(moves_made))
    /\ [](game = "lost" => ret \notin moves_made)
    /\ [](Reveals <= height * width)
    /\ <>(game # "playing")

PolicyGameWitness ==
    /\ game = "ended"
    /\ board # {}
    /\ nobs >= 3
    /\ nobs = height * width - Cardinality(board)

====
